---- MODULE Spec2Model ----
(***************************************************************************)
(* Model of src/app.py: the /upload handler (upload_files) and the probe   *)
(* get_video_dimensions.                                                   *)
(*                                                                         *)
(* Python floats are modelled as exact rationals <<num, den>> in lowest    *)
(* terms with den > 0, so every property about the placement rectangle is  *)
(* a property of the real-number computation the code writes down; the     *)
(* rounding of IEEE doubles (about 1e-16 relative) is not modelled.        *)
(* int(x) on a non-negative float is the floor of the rational.            *)
(***************************************************************************)
EXTENDS Integers, Sequences, FiniteSets, TLC

(* ---------------------------- bounds ----------------------------------- *)
MaxBatch  == 2      \* longest slides list of a request
MaxSlides == 2      \* most slides in the downloaded presentation
MaxTracks == 2      \* most tracks MediaInfo reports for one file

(* ------------------------ program constants ---------------------------- *)
DPI            == 96        \* app.py:114  video_width_px / 96.0
EMU_PER_INCH   == 914400    \* app.py:118  prs.slide_width / 914400
DefaultWidth   == 1920      \* app.py:98
DefaultHeight  == 1080      \* app.py:99
ThumbLandscape == 320       \* app.py:106
ThumbPortrait  == 240       \* app.py:108
None           == -1        \* Python None for a track dimension

(* --------------------------- rationals --------------------------------- *)
RECURSIVE GCD(_, _)
GCD(a, b) == IF b = 0 THEN a ELSE GCD(b, a % b)

Abs(x) == IF x < 0 THEN -x ELSE x

\* n/d in lowest terms, d > 0
Rat(n, d) ==
    LET s == IF d < 0 THEN -1 ELSE 1
        g == GCD(Abs(n), Abs(d))
    IN  <<(s * n) \div g, (s * d) \div g>>

LCM(a, b) == (a \div GCD(a, b)) * b

RMul(x, y) ==
    LET g1 == GCD(Abs(x[1]), y[2])
        g2 == GCD(Abs(y[1]), x[2])
        h1 == IF g1 = 0 THEN 1 ELSE g1
        h2 == IF g2 = 0 THEN 1 ELSE g2
    IN  Rat((x[1] \div h1) * (y[1] \div h2), (x[2] \div h2) * (y[2] \div h1))

\* x / y, y # 0
RDiv(x, y) == RMul(x, Rat(y[2], y[1]))

RAdd(x, y) ==
    LET l == LCM(x[2], y[2])
    IN  Rat(x[1] * (l \div x[2]) + y[1] * (l \div y[2]), l)

RSub(x, y) == RAdd(x, <<-y[1], y[2]>>)

RLe(x, y) ==
    LET l == LCM(x[2], y[2])
    IN  x[1] * (l \div x[2]) <= y[1] * (l \div y[2])

RLt(x, y) == RLe(x, y) /\ x # y

RMin(x, y) == IF RLe(x, y) THEN x ELSE y
RMax(x, y) == IF RLe(x, y) THEN y ELSE x

Zero == <<0, 1>>

\* Python int() of a non-negative float
IntOf(x) == x[1] \div x[2]

(* 0.9, the "90% of slide max" factor of app.py:128 *)
Margin == <<9, 10>>

\* pptx.util.Inches(x): int(x * 914400)
Inches(x) == IntOf(RMul(x, <<EMU_PER_INCH, 1>>))

(* ---------------------- get_video_dimensions --------------------------- *)
\* A MediaInfo track: track_type, width, height (None when the field is absent)
VideoTrack(w, h) == [track_type |-> "Video", width |-> w, height |-> h]
AudioTrack       == [track_type |-> "Audio", width |-> None, height |-> None]

\* Python truthiness of a track dimension: None and 0 are falsy
Truthy(v) == v # None /\ v # 0

NoDims == <<None, None>>

\* the for loop of app.py:22-28 started at track i
RECURSIVE ScanTracks(_, _)
ScanTracks(tracks, i) ==
    IF i > Len(tracks) THEN NoDims
    ELSE IF tracks[i].track_type = "Video"
              /\ Truthy(tracks[i].width) /\ Truthy(tracks[i].height)
         THEN <<tracks[i].width, tracks[i].height>>
         ELSE ScanTracks(tracks, i + 1)

\* faulty variant: decide by the first video track alone
RECURSIVE ScanFirstVideoOnly(_, _)
ScanFirstVideoOnly(tracks, i) ==
    IF i > Len(tracks) THEN NoDims
    ELSE IF tracks[i].track_type = "Video"
         THEN IF Truthy(tracks[i].width) /\ Truthy(tracks[i].height)
              THEN <<tracks[i].width, tracks[i].height>>
              ELSE NoDims
         ELSE ScanFirstVideoOnly(tracks, i + 1)

\* faulty variant: no try/except, a backend error propagates to the caller
get_video_dimensions_propagates(tracks, parseRaises) ==
    IF parseRaises THEN [raised |-> TRUE, dims |-> NoDims]
    ELSE [raised |-> FALSE, dims |-> ScanTracks(tracks, 1)]

\* faulty variant: the first video track decides, usable or not
get_video_dimensions_first_only(tracks, parseRaises) ==
    IF parseRaises THEN [raised |-> FALSE, dims |-> NoDims]
    ELSE [raised |-> FALSE, dims |-> ScanFirstVideoOnly(tracks, 1)]

\* get_video_dimensions(video_path): tracks is what MediaInfo.parse yields,
\* parseRaises tells whether MediaInfo.parse raises instead.  The result
\* says whether the call raised and the pair it returned.
get_video_dimensions(tracks, parseRaises) ==
    IF parseRaises THEN [raised |-> FALSE, dims |-> NoDims]
    ELSE [raised |-> FALSE, dims |-> ScanTracks(tracks, 1)]

(* -------------------------- fallback size ------------------------------ *)
\* faulty variant: a different default size
IntrinsicOrDefault_720p(dims) ==
    IF dims[1] = None \/ dims[2] = None THEN <<1280, 720>> ELSE dims

\* app.py:95-99
IntrinsicOrDefault(dims) ==
    IF dims[1] = None \/ dims[2] = None
    THEN <<DefaultWidth, DefaultHeight>>
    ELSE dims

(* ----------------------------- thumbnail ------------------------------- *)
\* app.py:104-108, <<thumb_width, thumb_height>>.  int() is taken of the
\* exact quotient; for the sizes in TrackKinds and the default size the
\* double-precision quotient truncates to the same integer.
Thumb(w, h) ==
    LET aspect_ratio == Rat(w, h)
    IN  IF RLt(<<1, 1>>, aspect_ratio)
        THEN <<ThumbLandscape, IntOf(RDiv(<<ThumbLandscape, 1>>, aspect_ratio))>>
        ELSE <<IntOf(RMul(<<ThumbPortrait, 1>>, aspect_ratio)), ThumbPortrait>>

(* ----------------------------- placement ------------------------------- *)
\* app.py:126
ExceedsSlide(vw, vh, sw, sh) == RLt(sw, vw) \/ RLt(sh, vh)

\* app.py:128
ScaleFactor(vw, vh, sw, sh) == RMul(RMin(RDiv(sw, vw), RDiv(sh, vh)), Margin)

\* faulty variant: the scale-down branch is missing
Place_no_scale(wpx, hpx, slide_width, slide_height) ==
    LET vw == Rat(wpx, DPI)
        vh == Rat(hpx, DPI)
        sw == Rat(slide_width, EMU_PER_INCH)
        sh == Rat(slide_height, EMU_PER_INCH)
    IN  [left |-> RMax(Zero, RSub(sw, vw)), top |-> RMax(Zero, RSub(sh, vh)),
         width |-> vw, height |-> vh, scaled |-> FALSE]

\* faulty variant: each axis is scaled by its own ratio
Place_stretch(wpx, hpx, slide_width, slide_height) ==
    LET vw == Rat(wpx, DPI)
        vh == Rat(hpx, DPI)
        sw == Rat(slide_width, EMU_PER_INCH)
        sh == Rat(slide_height, EMU_PER_INCH)
        sc == ExceedsSlide(vw, vh, sw, sh)
        fw == IF sc THEN RMul(vw, RMul(RMin(<<1, 1>>, RDiv(sw, vw)), Margin)) ELSE vw
        fh == IF sc THEN RMul(vh, RMul(RMin(<<1, 1>>, RDiv(sh, vh)), Margin)) ELSE vh
    IN  [left |-> RMax(Zero, RSub(sw, fw)), top |-> RMax(Zero, RSub(sh, fh)),
         width |-> fw, height |-> fh, scaled |-> sc]

\* faulty variant: the origin is not recomputed after scaling
Place_stale_origin(wpx, hpx, slide_width, slide_height) ==
    LET vw == Rat(wpx, DPI)
        vh == Rat(hpx, DPI)
        sw == Rat(slide_width, EMU_PER_INCH)
        sh == Rat(slide_height, EMU_PER_INCH)
        sc == ExceedsSlide(vw, vh, sw, sh)
        f  == IF sc THEN ScaleFactor(vw, vh, sw, sh) ELSE <<1, 1>>
    IN  [left |-> RMax(Zero, RSub(sw, vw)), top |-> RMax(Zero, RSub(sh, vh)),
         width |-> RMul(vw, f), height |-> RMul(vh, f), scaled |-> sc]

\* faulty variant: scaling without the 0.9 margin
Place_no_margin(wpx, hpx, slide_width, slide_height) ==
    LET vw == Rat(wpx, DPI)
        vh == Rat(hpx, DPI)
        sw == Rat(slide_width, EMU_PER_INCH)
        sh == Rat(slide_height, EMU_PER_INCH)
        sc == ExceedsSlide(vw, vh, sw, sh)
        f  == IF sc THEN RMin(RDiv(sw, vw), RDiv(sh, vh)) ELSE <<1, 1>>
        fw == RMul(vw, f)
        fh == RMul(vh, f)
    IN  [left |-> RMax(Zero, RSub(sw, fw)), top |-> RMax(Zero, RSub(sh, fh)),
         width |-> fw, height |-> fh, scaled |-> sc]

\* app.py:113-139: the rectangle in inches and whether the scale-down
\* branch was taken
Place(wpx, hpx, slide_width, slide_height) ==
    LET video_width_in  == Rat(wpx, DPI)
        video_height_in == Rat(hpx, DPI)
        slide_width_in  == Rat(slide_width, EMU_PER_INCH)
        slide_height_in == Rat(slide_height, EMU_PER_INCH)
        left0           == RSub(slide_width_in, video_width_in)
        top0            == RSub(slide_height_in, video_height_in)
        sc              == ExceedsSlide(video_width_in, video_height_in,
                                        slide_width_in, slide_height_in)
        scale_factor    == ScaleFactor(video_width_in, video_height_in,
                                       slide_width_in, slide_height_in)
        w1              == IF sc THEN RMul(video_width_in, scale_factor)
                                 ELSE video_width_in
        h1              == IF sc THEN RMul(video_height_in, scale_factor)
                                 ELSE video_height_in
        left1           == IF sc THEN RSub(slide_width_in, w1) ELSE left0
        top1            == IF sc THEN RSub(slide_height_in, h1) ELSE top0
    IN  [left |-> RMax(Zero, left1), top |-> RMax(Zero, top1),
         width |-> w1, height |-> h1, scaled |-> sc]

(* ------------------------- request validation -------------------------- *)
\* One element of data['slides'].  isDict: it is a dict; hasNumber, hasLink:
\* the keys 'number' and 'videoLink' are present; isInt: info['number'] is
\* an int; number: its value.
Entry(d, n, l, i, v) ==
    [isDict |-> d, hasNumber |-> n, hasLink |-> l, isInt |-> i, number |-> v]

\* faulty variant: only the 'number' key is required
ShapeOk_number_only(info) == info.isDict /\ info.hasNumber

\* app.py:73 (negated)
ShapeOk(info) == info.isDict /\ info.hasNumber /\ info.hasLink

\* faulty variant: zero-based lower bound
SlideNumValid_zero_based(info, n_slides) ==
    info.isInt /\ ~(info.number < 0) /\ ~(info.number > n_slides)

\* app.py:79 (negated)
SlideNumValid(info, n_slides) ==
    info.isInt /\ ~(info.number < 1) /\ ~(info.number > n_slides)

\* faulty variant: the loop stops one entry early
LoopDone_early(i, slides) == i >= Len(slides)

\* app.py:72: the for loop over slides_info is exhausted
LoopDone(i, slides) == i > Len(slides)

(* ------------------------------ responses ------------------------------ *)
NoResponse == [kind |-> "none", status |-> 0, msg |-> "", arg |-> 0,
               hasDoc |-> FALSE, doc |-> <<>>]

\* return "<msg> <arg>", 400
ErrorResponse(m, a) == [kind |-> "error", status |-> 400, msg |-> m, arg |-> a,
                        hasDoc |-> FALSE, doc |-> <<>>]

\* an uncaught exception: Flask answers 500
ExceptionResponse(m, a) == [kind |-> "error", status |-> 500, msg |-> m, arg |-> a,
                            hasDoc |-> FALSE, doc |-> <<>>]

\* app.py:157-160: the saved presentation is sent back
FileResponse(d) == [kind |-> "file", status |-> 200, msg |-> "modified.pptx",
                    arg |-> 0, hasDoc |-> TRUE, doc |-> d]

(* ------------------------------- inputs -------------------------------- *)
\* slide numbers tried against a presentation of n slides: below, at and
\* above both ends of 1..n
Numbers(n) == {-1, 0, 1, n, n + 1}

Entries(n) ==
    { Entry(FALSE, FALSE, FALSE, FALSE, 0),      \* not a dict
      Entry(TRUE, TRUE, FALSE, TRUE, 0),         \* no 'videoLink', number 0
      Entry(TRUE, TRUE, TRUE, FALSE, 1) }        \* number is not an int
    \cup { Entry(TRUE, TRUE, TRUE, TRUE, v) : v \in Numbers(n) }

Batches(n) == UNION { [1..k -> Entries(n)] : k \in 0..MaxBatch }

\* prs.slide_width, prs.slide_height in EMU
SlideGeoms ==
    { <<9144000, 6858000>>,     \* 10in x 7.5in (4:3)
      <<3048000, 2286000>>,     \* exactly 320x240 px at 96 DPI
      <<5000000, 3000000>> }    \* not a whole number of pixels

TrackKinds ==
    { AudioTrack,
      VideoTrack(None, 1080), VideoTrack(1920, 0),
      VideoTrack(1280, 1024), VideoTrack(320, 240),
      VideoTrack(1000, 1), VideoTrack(1, 1000) }

TrackLists == UNION { [1..n -> TrackKinds] : n \in 0..MaxTracks }

(* -------------------------------- state -------------------------------- *)
VARIABLES
    reqKind,        \* "nokeys" | "notlist" | "ok": shape of the JSON body
    slides_info,    \* data['slides'] when it is a list
    num_slides,     \* len(prs.slides) of the presentation behind data['ppt']
    slide_width,    \* prs.slide_width  (EMU)
    slide_height,   \* prs.slide_height (EMU)
    pc,             \* "start" | "loop" | "probed" | "embed" | "done"
    idx,            \* 1-based position of the for loop
    embedded,       \* the add_movie calls made on prs so far, in order
    probed,         \* the get_video_dimensions call that just returned
    video_px,       \* what it returned and video_width_px, video_height_px
    response        \* what the handler returned

vars == <<reqKind, slides_info, num_slides, slide_width, slide_height,
          pc, idx, embedded, probed, video_px, response>>

NoProbe == [entry |-> 0, tracks |-> <<>>, parseRaises |-> FALSE,
            result |-> [raised |-> FALSE, dims |-> NoDims]]

NoPx == [probe |-> NoDims, px |-> NoDims]

Init ==
    /\ reqKind \in {"nokeys", "notlist", "ok"}
    /\ num_slides \in 0..MaxSlides
    /\ slides_info \in (IF reqKind = "ok" THEN Batches(num_slides) ELSE {<<>>})
    /\ \E g \in SlideGeoms : slide_width = g[1] /\ slide_height = g[2]
    /\ pc = "start"
    /\ idx = 0
    /\ embedded = <<>>
    /\ probed = NoProbe
    /\ video_px = NoPx
    /\ response = NoResponse

Finish(r) ==
    /\ response' = r
    /\ pc' = "done"

\* app.py:43-69: body checks, PPTX download, Presentation(...)
ValidateAndLoad ==
    /\ pc = "start"
    /\ \E ppt_status \in {200, 404} :
         IF reqKind = "nokeys"
         THEN Finish(ErrorResponse("Missing PPT URL or slides data", 0))
              /\ UNCHANGED idx
         ELSE IF reqKind = "notlist" \/ slides_info = <<>>
         THEN Finish(ErrorResponse("Invalid slides data", 0)) /\ UNCHANGED idx
         ELSE IF ppt_status # 200
         THEN Finish(ErrorResponse("Failed to download PPTX", 0)) /\ UNCHANGED idx
         ELSE IF num_slides = 0
         THEN Finish(ErrorResponse("Presentation has no slides", 0))
              /\ UNCHANGED idx
         ELSE pc' = "loop" /\ idx' = 1 /\ UNCHANGED response
    /\ UNCHANGED <<reqKind, slides_info, num_slides, slide_width, slide_height,
                   embedded, probed, video_px>>

\* the add_movie call of app.py:145-154; probe is what
\* get_video_dimensions returned for the entry
MovieCall(i, slide_num, dims, px, thumb, rect) ==
    [entry |-> i, slide |-> slide_num, probe |-> dims, px |-> px,
     thumb |-> thumb, rect |-> rect,
     emu |-> [left |-> Inches(rect.left), top |-> Inches(rect.top),
              width |-> Inches(rect.width), height |-> Inches(rect.height)]]

\* app.py:72-93: one iteration of the for loop up to the return of
\* get_video_dimensions: the entry checks, the video download, the probe
FetchAndProbe ==
    /\ pc = "loop"
    /\ ~LoopDone(idx, slides_info)
    /\ LET info == slides_info[idx] IN
       IF ~ShapeOk(info)
       THEN Finish(ErrorResponse("Invalid slide info at index", idx - 1))
            /\ UNCHANGED probed
       ELSE IF ~SlideNumValid(info, num_slides)
       THEN Finish(ErrorResponse("Invalid slide number", info.number))
            /\ UNCHANGED probed
       ELSE \E video_status \in {200, 404} :
         IF video_status # 200
         THEN Finish(ErrorResponse("Failed to download video for slide", info.number))
              /\ UNCHANGED probed
         ELSE \E tracks \in TrackLists :
              \E parseRaises \in (IF tracks = <<>> THEN BOOLEAN ELSE {FALSE}) :
                LET res == get_video_dimensions(tracks, parseRaises) IN
                /\ probed' = [entry |-> idx, tracks |-> tracks,
                              parseRaises |-> parseRaises, result |-> res]
                /\ IF res.raised
                   THEN Finish(ExceptionResponse("get_video_dimensions", info.number))
                   ELSE pc' = "probed" /\ UNCHANGED response
    /\ UNCHANGED <<reqKind, slides_info, num_slides, slide_width, slide_height,
                   idx, embedded, video_px>>

\* app.py:93-101: the returned pair is bound to video_width_px,
\* video_height_px and the default is substituted for (None, None); the
\* probe's own locals are gone
ApplyFallback ==
    /\ pc = "probed"
    /\ video_px' = [probe |-> probed.result.dims,
                    px |-> IntrinsicOrDefault(probed.result.dims)]
    /\ probed' = NoProbe
    /\ pc' = "embed"
    /\ UNCHANGED <<reqKind, slides_info, num_slides, slide_width, slide_height,
                   idx, embedded, response>>

\* app.py:103-154: poster, placement and add_movie; the iteration's
\* locals die with it
EmbedEntry ==
    /\ pc = "embed"
    /\ LET info  == slides_info[idx]
           px    == video_px.px
           thumb == Thumb(px[1], px[2])
           rect  == Place(px[1], px[2], slide_width, slide_height)
       IN
       \* a poster with a zero side: Pillow may refuse to write it
       \E saveRaises \in (IF thumb[1] = 0 \/ thumb[2] = 0
                          THEN BOOLEAN ELSE {FALSE}) :
         IF saveRaises
         THEN Finish(ExceptionResponse("img.save", info.number))
              /\ UNCHANGED <<idx, embedded>>
         ELSE /\ embedded' = Append(embedded,
                   MovieCall(idx, info.number, video_px.probe, px, thumb, rect))
              /\ idx' = idx + 1
              /\ pc' = "loop"
              /\ UNCHANGED response
    /\ video_px' = NoPx
    /\ UNCHANGED <<reqKind, slides_info, num_slides, slide_width, slide_height,
                   probed>>

\* app.py:156-160: prs.save and send_file
SaveAndSend ==
    /\ pc = "loop"
    /\ LoopDone(idx, slides_info)
    /\ Finish(FileResponse(embedded))
    /\ UNCHANGED <<reqKind, slides_info, num_slides, slide_width, slide_height,
                   idx, embedded, probed, video_px>>

Next == ValidateAndLoad \/ FetchAndProbe \/ ApplyFallback \/ EmbedEntry \/ SaveAndSend

Spec == Init /\ [][Next]_vars

(* ============================== claims ================================= *)
SlideW == Rat(slide_width, EMU_PER_INCH)
SlideH == Rat(slide_height, EMU_PER_INCH)
CandW(c) == Rat(c.px[1], DPI)
CandH(c) == Rat(c.px[2], DPI)
SetMin(S) == CHOOSE m \in S : \A n \in S : m <= n

\* The loop is back at its head.  Every add_movie call is followed by such
\* a state with the call in embedded, and embedded changes nowhere else,
\* so what holds of all of embedded in these states holds of every call.
AtLoopHead == pc = "loop"

\* C1: every rectangle handed to add_movie lies inside the slide:
\* left >= 0, top >= 0, left + width <= slide width and top + height <=
\* slide height, in inches and in the EMU values Inches() produces.
C1_RectWithinSlide ==
    AtLoopHead => \A i \in DOMAIN embedded :
        LET r == embedded[i].rect
            e == embedded[i].emu
        IN  /\ RLe(Zero, r.left) /\ RLe(Zero, r.top)
            /\ RLe(RAdd(r.left, r.width), SlideW)
            /\ RLe(RAdd(r.top, r.height), SlideH)
            /\ e.left >= 0 /\ e.top >= 0
            /\ e.left + e.width <= slide_width
            /\ e.top + e.height <= slide_height

\* C1 witness: one request embedded a video that had to be scaled down and
\* one that fitted as it was.
C1_Witness ==
    /\ \E i \in DOMAIN embedded : embedded[i].rect.scaled
    /\ \E j \in DOMAIN embedded : ~embedded[j].rect.scaled

\* C2: the rectangle keeps the source aspect ratio exactly:
\* width * heightPx = height * widthPx, scaled or not.
C2_AspectPreserved ==
    AtLoopHead => \A i \in DOMAIN embedded :
        LET c == embedded[i]
        IN  RMul(c.rect.width, <<c.px[2], 1>>) = RMul(c.rect.height, <<c.px[1], 1>>)

\* C2 witness: a probed (non-default) size that was scaled down on one
\* axis only because the other axis already fitted.
C2_Witness ==
    \E i \in DOMAIN embedded :
        LET c == embedded[i]
        IN  /\ c.probe # NoDims
            /\ c.rect.scaled
            /\ RLe(CandW(c), SlideW)
            /\ RLt(SlideH, CandH(c))

\* C3: a request ends either with a saved document in which every entry of
\* the request has been embedded exactly once and in order, or with an
\* error that carries no document; no response carries a document holding
\* only part of the entries.
C3_AllOrNothing ==
    /\ pc = "done" => response.kind \in {"file", "error"}
    /\ pc # "done" => response = NoResponse
    /\ response.kind = "error" => ~response.hasDoc /\ response.doc = <<>>
    /\ response.hasDoc => response.kind = "file"
    /\ response.kind = "file" =>
          /\ response.hasDoc
          /\ Len(response.doc) = Len(slides_info)
          /\ \A i \in DOMAIN response.doc :
                /\ response.doc[i].entry = i
                /\ response.doc[i].slide = slides_info[i].number

\* C3 witness: the request failed after a proper, non-empty prefix of its
\* entries had been embedded in the in-memory presentation.
C3_Witness ==
    /\ response.kind = "error"
    /\ Len(embedded) >= 1
    /\ Len(embedded) < Len(slides_info)
    /\ ~response.hasDoc

CannotDeliver(p) ==
    \/ p.parseRaises
    \/ \A i \in DOMAIN p.tracks :
          \/ p.tracks[i].track_type # "Video"
          \/ p.tracks[i].width \in {None, 0}
          \/ p.tracks[i].height \in {None, 0}

C5_Step ==
    /\ (pc = "loop" /\ probed'.entry # 0 /\ CannotDeliver(probed'))
          => /\ probed'.result = [raised |-> FALSE, dims |-> NoDims]
             /\ pc' = "probed"
             /\ response' = NoResponse
    /\ (pc = "probed" /\ probed.result.dims = NoDims)
          => /\ pc' = "embed"
             /\ response' = NoResponse
             /\ video_px' = [probe |-> NoDims, px |-> <<1920, 1080>>]
    /\ (pc = "embed" /\ video_px.probe = NoDims)
          => /\ pc' = "loop"
             /\ response' = NoResponse
             /\ Len(embedded') = Len(embedded) + 1
             /\ embedded'[Len(embedded')].entry = idx
             /\ embedded'[Len(embedded')].px = <<1920, 1080>>
             /\ idx' = idx + 1

\* C5: a probe that cannot deliver dimensions returns (None, None) without
\* raising, the entry is then embedded with the size 1920x1080, and the
\* loop goes on to the next entry; the request is not failed.
C5_ProbeFailureRecovered == [][C5_Step]_vars

\* C5 witness: the first entry's probe delivered nothing, it was embedded
\* at 1920x1080, and a later entry was embedded after it.
C5_Witness ==
    /\ Len(embedded) >= 2
    /\ embedded[1].probe = NoDims
    /\ embedded[1].px = <<1920, 1080>>

VideoIdx(tracks) == { i \in DOMAIN tracks : tracks[i].track_type = "Video" }
UsableIdx(tracks) ==
    { i \in VideoIdx(tracks) : tracks[i].width \notin {None, 0}
                               /\ tracks[i].height \notin {None, 0} }

\* C6 as stated: the first video track alone decides: its width and height
\* are returned when both are > 0, and (None, None) is returned when it has
\* a zero or missing dimension, whatever video tracks follow.
C6_FirstVideoTrackDecides ==
    (probed.entry # 0 /\ ~probed.parseRaises /\ VideoIdx(probed.tracks) # {}) =>
        LET t == probed.tracks[SetMin(VideoIdx(probed.tracks))]
        IN  IF t.width \notin {None, 0} /\ t.height \notin {None, 0}
            THEN probed.result.dims = <<t.width, t.height>>
            ELSE probed.result.dims = NoDims

\* C6 amended: get_video_dimensions returns the width and height of the
\* first video track whose width and height are both non-zero, skipping
\* video tracks with a zero or missing dimension; it returns (None, None)
\* exactly when there is no such track or the backend raises; a returned
\* size has both fields > 0.
C6_FirstUsableVideoTrackDecides ==
    probed.entry # 0 =>
        IF probed.parseRaises \/ UsableIdx(probed.tracks) = {}
        THEN probed.result.dims = NoDims
        ELSE LET t == probed.tracks[SetMin(UsableIdx(probed.tracks))]
             IN  /\ probed.result.dims = <<t.width, t.height>>
                 /\ probed.result.dims[1] > 0
                 /\ probed.result.dims[2] > 0

\* C6 witness: the first video track has a missing or zero dimension, a
\* later video track is usable, and the later track's size was returned.
C6_Witness ==
    /\ probed.entry # 0
    /\ UsableIdx(probed.tracks) # {}
    /\ SetMin(VideoIdx(probed.tracks)) < SetMin(UsableIdx(probed.tracks))
    /\ probed.result.dims # NoDims

\* C7 as stated: every poster fits the 320x240 box.
C7_ThumbFitsBox ==
    \A i \in DOMAIN embedded :
        embedded[i].thumb[1] <= 320 /\ embedded[i].thumb[2] <= 240

\* C8: the origin is the bottom-right anchor of the final size:
\* left = max(0, slideWidth - width) and top = max(0, slideHeight - height);
\* after a scale-down it is neither the pre-scale origin nor a centered one.
C8_BottomRightAnchor ==
    AtLoopHead => \A i \in DOMAIN embedded :
        LET c == embedded[i]
            r == c.rect
        IN  /\ r.left = RMax(Zero, RSub(SlideW, r.width))
            /\ r.top = RMax(Zero, RSub(SlideH, r.height))
            /\ r.scaled =>
                  /\ <<r.left, r.top>> # <<RMax(Zero, RSub(SlideW, CandW(c))),
                                           RMax(Zero, RSub(SlideH, CandH(c)))>>
                  /\ r.left # RMul(RSub(SlideW, r.width), <<1, 2>>)
                  /\ r.top # RMul(RSub(SlideH, r.height), <<1, 2>>)

\* C8 witness: a scaled-down video whose pre-scale origin would have been
\* a different point.
C8_Witness ==
    \E i \in DOMAIN embedded :
        LET c == embedded[i]
        IN  /\ c.rect.scaled
            /\ RLt(Zero, RSub(SlideW, CandW(c)))
            /\ c.rect.left # RSub(SlideW, CandW(c))

\* C9: the scale-down is applied exactly when the candidate (px / 96)
\* exceeds the slide in width or height; then both sides are multiplied by
\* min(slideWidth / candW, slideHeight / candH) * 0.9, so width <= 0.9 *
\* slideWidth and height <= 0.9 * slideHeight with equality on one axis and
\* left > 0, top > 0; otherwise the size is the candidate unchanged.
C9_ScaleRule ==
    AtLoopHead => \A i \in DOMAIN embedded :
        LET c  == embedded[i]
            r  == c.rect
            cw == CandW(c)
            ch == CandH(c)
            f  == RMul(RMin(RDiv(SlideW, cw), RDiv(SlideH, ch)), <<9, 10>>)
            mw == RMul(SlideW, <<9, 10>>)
            mh == RMul(SlideH, <<9, 10>>)
        IN  /\ r.scaled <=> (RLt(SlideW, cw) \/ RLt(SlideH, ch))
            /\ r.scaled =>
                  /\ r.width = RMul(cw, f) /\ r.height = RMul(ch, f)
                  /\ RLe(r.width, mw) /\ RLe(r.height, mh)
                  /\ (r.width = mw \/ r.height = mh)
                  /\ RLt(Zero, r.left) /\ RLt(Zero, r.top)
            /\ ~r.scaled => r.width = cw /\ r.height = ch

\* C9 witness: a video exactly as large as the slide is left unscaled at
\* the origin, in a request that also scaled another video down.
C9_Witness ==
    /\ \E i \in DOMAIN embedded :
          /\ ~embedded[i].rect.scaled
          /\ embedded[i].rect.width = SlideW
          /\ embedded[i].rect.height = SlideH
          /\ embedded[i].rect.left = Zero
    /\ \E j \in DOMAIN embedded :
          /\ embedded[j].rect.scaled
          /\ embedded[j].rect.width = RMul(SlideW, <<9, 10>>)

\* C10 as stated: for every positive intrinsic size both poster dimensions
\* are >= 1, so writing the poster never fails the request.
C10_ThumbNeverEmpty ==
    /\ \A i \in DOMAIN embedded :
          embedded[i].thumb[1] >= 1 /\ embedded[i].thumb[2] >= 1
    /\ response.msg # "img.save"

====
